---- MODULE Spec2Model ----
(***************************************************************************)
(* A model of the Result library (src/src/result): the two variants Ok and *)
(* Fail, the absence marker Nothing, the guard predicates and the          *)
(* combinators of utils/helpers.py.                                        *)
(*                                                                         *)
(* Python objects are records with a field cls naming their class.  An     *)
(* atom [cls, n] is None, a bool, an int, a str (n is the index of a       *)
(* string literal) or the singleton Nothing; a Result is [cls, value]; a   *)
(* list is [cls, items].  A call ends in an outcome: a returned object or  *)
(* a raised exception.                                                     *)
(***************************************************************************)
EXTENDS Integers, Sequences, FiniteSets, TLC

VARIABLES pc, results, idx, validResults, inspected, ret, call

vars == <<pc, results, idx, validResults, inspected, ret, call>>

(***************************************************************************)
(* Bounds of the model.                                                    *)
(***************************************************************************)
MaxInt == 2
MaxStr == 1
MaxLen == 3

(***************************************************************************)
(* Python values.                                                          *)
(***************************************************************************)
PyNone == [cls |-> "NoneType", n |-> 0]
PyInt(k) == [cls |-> "int", n |-> k]
PyBool(b) == [cls |-> "bool", n |-> IF b THEN 1 ELSE 0]
PyStr(k) == [cls |-> "str", n |-> k]
PyList(s) == [cls |-> "list", items |-> s]

\* nothing.py: Nothing: Final[_Nothing] = _Nothing(), the only instance.
Nothing == [cls |-> "_Nothing", n |-> 0]

\* The dataclasses _Ok and _Fail: one field, value.
Ok(v) == [cls |-> "Ok", value |-> v]
Fail(v) == [cls |-> "Fail", value |-> v]

Payloads ==
    {PyNone, PyBool(TRUE)} \cup {PyInt(k) : k \in 1..MaxInt}
        \cup {PyStr(k) : k \in 1..MaxStr}

Results == {Ok(v) : v \in Payloads} \cup {Fail(v) : v \in Payloads}

NonResults == Payloads \cup {Nothing}

Values == Results \cup NonResults

\* The elements a caller may put in the sequence given to result_combine.
CombineElems == Results \cup {PyNone, Nothing, PyInt(1)}

RECURSIVE SeqsUpTo(_, _)
SeqsUpTo(S, k) ==
    IF k = 0 THEN {<<>>}
    ELSE LET shorter == SeqsUpTo(S, k - 1)
         IN  shorter \cup {Append(s, e) : s \in {t \in shorter : Len(t) = k - 1}, e \in S}

(***************************************************************************)
(* Outcomes of a call.                                                     *)
(***************************************************************************)
Return(v) == [kind |-> "return", val |-> v]
Raise(e) == [kind |-> "raise", val |-> [cls |-> e, n |-> 0]]

\* The classes an object of class c is an instance of: _Ok and _Fail derive
\* from the abstract _Result.
Bases(c) ==
    IF c \in {"Ok", "Fail"} THEN {c, "Result", "object"} ELSE {c, "object"}

isinstance(x, c) == c \in Bases(x.cls)

\* Python's == on the payloads of the model: bool is a subclass of int and
\* compares by number (True == 1); every other class compares within itself.
PyEq(a, b) ==
    IF a.cls \in {"int", "bool"} /\ b.cls \in {"int", "bool"}
    THEN a.n = b.n
    ELSE a.cls = b.cls /\ a.n = b.n

\* `x is not None`
IsNotNone(x) == x.cls # "NoneType"

(***************************************************************************)
(* base.py: the methods of _Ok and _Fail.                                  *)
(***************************************************************************)
\* Ok_eq forgetting the variant: any Result with an equal payload is equal.
Ok_eq_any_variant(self, other) ==
    PyBool(isinstance(other, "Result") /\ PyEq(self.value, other.value))

Ok_eq(self, other) ==
    PyBool(isinstance(other, "Ok") /\ PyEq(self.value, other.value))

Fail_eq(self, other) ==
    PyBool(isinstance(other, "Fail") /\ PyEq(self.value, other.value))

Ok_isFail(self) == FALSE
Ok_isOk(self) == TRUE
Fail_isFail(self) == TRUE
\* Fail_isOk copied from _Ok without flipping the answer.
Fail_isOk_copied(self) == TRUE
Fail_isOk(self) == FALSE

\* Ok_value_or without the None test.
Ok_value_or_no_fallback(self, result) == self.value

Ok_value_or(self, result) ==
    IF IsNotNone(self.value) THEN self.value ELSE result

\* The builtin hash of a payload, kept symbolic: equal numbers hash equal
\* (hash(True) == hash(1)), None and each string have a hash of their own.
py_hash(v) ==
    IF v.cls \in {"int", "bool"} THEN [cls |-> "hash", of |-> "num", n |-> v.n]
    ELSE [cls |-> "hash", of |-> v.cls, n |-> v.n]

\* The hash of a tuple is a function of the hashes of its elements, and is
\* kept as that: two equal symbolic hashes are equal in every build.
tuple_hash(t) == [cls |-> "hash", of |-> "tuple", items |-> [i \in DOMAIN t |-> py_hash(t[i])]]

Ok_hash(self) == tuple_hash(<<PyBool(TRUE), self.value>>)

Fail_hash(self) == tuple_hash(<<PyBool(TRUE), self.value>>)

(***************************************************************************)
(* Attribute lookup and method dispatch on an arbitrary object.            *)
(***************************************************************************)
\* x.value: the field of a Result, the class attribute of _Nothing.
Nothing_value == PyNone

getattr_value(x) ==
    IF isinstance(x, "Result") THEN Return(x.value)
    ELSE IF x.cls = "_Nothing" THEN Return(Nothing_value)
    ELSE Raise("AttributeError")

\* __nothing__ returning the class attribute instead of raising.
Nothing_nothing_returns == Return(PyNone)

\* x.__nothing__()
Nothing_nothing == Raise("RuntimeError")

call_nothing(x) ==
    IF x.cls = "_Nothing" THEN Nothing_nothing ELSE Raise("AttributeError")

\* x.isOk() and x.isFail()
call_isOk(x) ==
    IF x.cls = "Ok" THEN Return(PyBool(Ok_isOk(x)))
    ELSE IF x.cls = "Fail" THEN Return(PyBool(Fail_isOk(x)))
    ELSE Raise("AttributeError")

call_isFail(x) ==
    IF x.cls = "Ok" THEN Return(PyBool(Ok_isFail(x)))
    ELSE IF x.cls = "Fail" THEN Return(PyBool(Fail_isFail(x)))
    ELSE Raise("AttributeError")

\* x.value_or(d): only _Ok defines the method.
call_value_or(x, d) ==
    IF x.cls = "Ok" THEN Return(Ok_value_or(x, d)) ELSE Raise("AttributeError")

\* a == b with a a Result: a's __eq__ answers, it never returns NotImplemented.
py_eq(a, b) ==
    IF a.cls = "Ok" THEN Return(Ok_eq(a, b)) ELSE Return(Fail_eq(a, b))

\* hash(x) with x a Result.
hash(x) == IF x.cls = "Ok" THEN Ok_hash(x) ELSE Fail_hash(x)

(***************************************************************************)
(* guards/base.py                                                          *)
(***************************************************************************)
\* is_result by duck typing: anything with a value attribute passes.
is_result_duck(result) == Return(PyBool(getattr_value(result).kind = "return"))

is_result(result) == Return(PyBool(isinstance(result, "Result")))

is_ok(result) == call_isOk(result)

\* is_fail delegating to the wrong query method.
is_fail_asks_isOk(result) == call_isOk(result)

is_fail(result) == call_isFail(result)

(***************************************************************************)
(* utils/helpers.py                                                        *)
(***************************************************************************)
result_equality(result, otherResult) ==
    IF \/ isinstance(result, "Ok") /\ isinstance(otherResult, "Ok")
       \/ isinstance(result, "Fail") /\ isinstance(otherResult, "Fail")
    THEN Return(PyBool(PyEq(result.value, otherResult.value)))
    ELSE Return(PyBool(FALSE))

result_ok(value) == Ok(value)

result_fail(value) == Fail(value)

\* value_or substituting the default for a non-Result instead of raising.
value_or_lenient(result, default) ==
    IF ~isinstance(result, "Result") THEN Return(default)
    ELSE IF is_fail(result).val = PyBool(FALSE) THEN Return(result.value)
    ELSE Return(default)

value_or(result, default) ==
    IF ~isinstance(result, "Result") THEN Raise("TypeError")
    ELSE LET f == is_fail(result)
         IN  IF f.val = PyBool(FALSE) THEN Return(result.value) ELSE Return(default)

\* unwrap_or falling back to the default on a failure, like value_or.
unwrap_or_variant_aware(result, default) ==
    IF isinstance(result, "Ok") THEN Return(result.value) ELSE Return(default)

unwrap_or(result, default) ==
    IF isinstance(result, "Result") THEN Return(result.value) ELSE Return(default)

\* The payload put at the front of the list instead of the end.
list_prepend(l, v) == <<v>> \o l

\* validResults.append(value)
list_append(l, v) == Append(l, v)

(***************************************************************************)
(* The state machine: a caller that either runs result_combine on a        *)
(* sequence, one iteration of its loop per step, or makes one call of one  *)
(* of the other operations.                                                *)
(***************************************************************************)
NoCall == [op |-> "none"]
NoRet == [kind |-> "none"]

Init ==
    /\ pc = "idle"
    /\ results = <<>>
    /\ idx = 0
    /\ validResults = <<>>
    /\ inspected = {}
    /\ ret = NoRet
    /\ call = NoCall

\* result_combine(rs) is entered: validResults = [] and the loop begins.
CombineCall ==
    /\ pc = "idle"
    /\ \E rs \in SeqsUpTo(CombineElems, MaxLen) :
        /\ results' = rs
        /\ idx' = 1
        /\ validResults' = <<>>
        /\ inspected' = {}
        /\ pc' = "loop"
    /\ UNCHANGED <<ret, call>>

\* One iteration of `for result in results`.
CombineLoop ==
    /\ pc = "loop"
    /\ idx <= Len(results)
    /\ LET result == results[idx]
           value == getattr_value(result)
           failed == is_fail(result)
       IN  /\ inspected' = inspected \cup {idx}
           /\ IF value.kind = "raise"
              THEN /\ ret' = value
                   /\ pc' = "done"
                   /\ UNCHANGED <<idx, validResults>>
              ELSE IF failed.kind = "raise"
              THEN /\ ret' = failed
                   /\ pc' = "done"
                   /\ UNCHANGED <<idx, validResults>>
              ELSE IF failed.val = PyBool(TRUE)
              THEN /\ ret' = Return(result_fail(getattr_value(result).val))
                   /\ pc' = "done"
                   /\ UNCHANGED <<idx, validResults>>
              ELSE /\ validResults' = list_append(validResults, value.val)
                   /\ idx' = idx + 1
                   /\ UNCHANGED <<ret, pc>>
    /\ UNCHANGED <<results, call>>

\* The loop ran off the end of the sequence: return result_ok(validResults).
CombineReturn ==
    /\ pc = "loop"
    /\ idx > Len(results)
    /\ ret' = Return(result_ok(PyList(validResults)))
    /\ pc' = "done"
    /\ UNCHANGED <<results, idx, validResults, inspected, call>>

\* What the caller keeps of one call: the operation, its arguments and how
\* it ended.
CallRecord(op, x, y, out) == [op |-> op, x |-> x, y |-> y, out |-> out]

combineVars == <<results, idx, validResults, inspected, ret>>

CallEq ==
    /\ pc = "idle"
    /\ \E a \in Results, b \in Values : call' = CallRecord("==", a, b, py_eq(a, b))
    /\ pc' = "called"
    /\ UNCHANGED combineVars

CallResultEquality ==
    /\ pc = "idle"
    /\ \E a \in Values, b \in Values :
        call' = CallRecord("result_equality", a, b, result_equality(a, b))
    /\ pc' = "called"
    /\ UNCHANGED combineVars

CallHash ==
    /\ pc = "idle"
    /\ \E a \in Results, b \in Results :
        call' = CallRecord("hash", a, b, <<hash(a), hash(b)>>)
    /\ pc' = "called"
    /\ UNCHANGED combineVars

CallValueOr ==
    /\ pc = "idle"
    /\ \E x \in Values, d \in Payloads : call' = CallRecord("value_or", x, d, value_or(x, d))
    /\ pc' = "called"
    /\ UNCHANGED combineVars

CallUnwrapOr ==
    /\ pc = "idle"
    /\ \E x \in Values, d \in Payloads : call' = CallRecord("unwrap_or", x, d, unwrap_or(x, d))
    /\ pc' = "called"
    /\ UNCHANGED combineVars

CallOkValueOr ==
    /\ pc = "idle"
    /\ \E x \in Values, d \in Payloads :
        call' = CallRecord("Ok.value_or", x, d, call_value_or(x, d))
    /\ pc' = "called"
    /\ UNCHANGED combineVars

CallIsResult ==
    /\ pc = "idle"
    /\ \E x \in Values : call' = CallRecord("is_result", x, PyNone, is_result(x))
    /\ pc' = "called"
    /\ UNCHANGED combineVars

CallIsOk ==
    /\ pc = "idle"
    /\ \E x \in Values : call' = CallRecord("is_ok", x, PyNone, is_ok(x))
    /\ pc' = "called"
    /\ UNCHANGED combineVars

CallIsFail ==
    /\ pc = "idle"
    /\ \E x \in Values : call' = CallRecord("is_fail", x, PyNone, is_fail(x))
    /\ pc' = "called"
    /\ UNCHANGED combineVars

CallGetValue ==
    /\ pc = "idle"
    /\ \E x \in Values : call' = CallRecord(".value", x, PyNone, getattr_value(x))
    /\ pc' = "called"
    /\ UNCHANGED combineVars

CallNothing ==
    /\ pc = "idle"
    /\ \E x \in Values : call' = CallRecord(".__nothing__", x, PyNone, call_nothing(x))
    /\ pc' = "called"
    /\ UNCHANGED combineVars

\* Build a Result with a constructor and ask all four variant queries of it.
CallGuards ==
    /\ pc = "idle"
    /\ \E v \in Payloads, ctor \in {"result_ok", "result_fail"} :
        LET r == IF ctor = "result_ok" THEN result_ok(v) ELSE result_fail(v)
        IN  call' = CallRecord(ctor, v, r, <<is_ok(r), is_fail(r), call_isOk(r), call_isFail(r)>>)
    /\ pc' = "called"
    /\ UNCHANGED combineVars

Next ==
    \/ CombineCall
    \/ CombineLoop
    \/ CombineReturn
    \/ CallEq
    \/ CallResultEquality
    \/ CallHash
    \/ CallValueOr
    \/ CallUnwrapOr
    \/ CallOkValueOr
    \/ CallIsResult
    \/ CallIsOk
    \/ CallIsFail
    \/ CallGetValue
    \/ CallNothing
    \/ CallGuards

Spec == Init /\ [][Next]_vars

(***************************************************************************)
(* Properties.                                                             *)
(***************************************************************************)
IsResult(x) == x.cls \in {"Ok", "Fail"}

True == Return(PyBool(TRUE))
False == Return(PyBool(FALSE))

\* The position of the leftmost failure of rs when every element before it
\* is a success, 0 when there is none.
FirstFail(rs) ==
    IF \E k \in 1..Len(rs) : rs[k].cls = "Fail" /\ \A j \in 1..(k - 1) : rs[j].cls = "Ok"
    THEN CHOOSE k \in 1..Len(rs) : rs[k].cls = "Fail" /\ \A j \in 1..(k - 1) : rs[j].cls = "Ok"
    ELSE 0

AllOk(rs) == \A k \in 1..Len(rs) : rs[k].cls = "Ok"

\* C1: when the sequence given to result_combine has a leftmost failure
\* preceded only by successes, no element after that failure is ever
\* inspected, and the call returns (it does not raise) a failure carrying
\* the payload of that leftmost failure, whatever follows it.
C1_FirstFailureShortCircuits ==
    (pc \in {"loop", "done"} /\ FirstFail(results) > 0) =>
        /\ inspected \subseteq 1..FirstFail(results)
        /\ pc = "done" => ret = Return(Fail(results[FirstFail(results)].value))

\* C1 witness: result_combine has returned on a sequence whose leftmost
\* failure is followed by a non-Result and by another failure with a
\* different payload.
C1_Witness ==
    /\ pc = "done"
    /\ FirstFail(results) > 0
    /\ \E j \in (FirstFail(results) + 1)..Len(results) : ~IsResult(results[j])
    /\ \E j \in (FirstFail(results) + 1)..Len(results) :
        /\ results[j].cls = "Fail"
        /\ results[j].value # results[FirstFail(results)].value

\* C2: when every element of the sequence is a success (the empty sequence
\* included), result_combine returns a success wrapping the list of the
\* elements' payloads, as long as the sequence and in its order.
C2_AllOkCollectsPayloads ==
    (pc = "done" /\ AllOk(results)) =>
        /\ ret.kind = "return"
        /\ ret.val.cls = "Ok"
        /\ ret.val.value.cls = "list"
        /\ Len(ret.val.value.items) = Len(results)
        /\ \A k \in 1..Len(results) : ret.val.value.items[k] = results[k].value

\* C2 witness: result_combine has returned on an all-success sequence of at
\* least two elements whose first two payloads differ.
C2_Witness ==
    /\ pc = "done"
    /\ AllOk(results)
    /\ Len(results) >= 2
    /\ results[1].value # results[2].value

\* C3: a == b (a a Result) and result_equality(a, b) return True exactly
\* when b is a Result of a's variant with an equal payload, and return False
\* (they do not raise) for every other b, a non-Result b included.
C3_EqualityIsVariantAware ==
    (call.op \in {"==", "result_equality"} /\ IsResult(call.x)) =>
        call.out = IF /\ IsResult(call.y)
                      /\ call.y.cls = call.x.cls
                      /\ PyEq(call.x.value, call.y.value)
                   THEN True ELSE False

\* C3 witness: a success was compared with a failure carrying an equal
\* payload.
C3_Witness ==
    /\ call.op \in {"==", "result_equality"}
    /\ call.x.cls = "Ok"
    /\ call.y.cls = "Fail"
    /\ PyEq(call.x.value, call.y.value)

\* C4: the hash of a success and the hash of a failure carrying an equal
\* payload differ, the variant tag being part of the hash.
C4_HashSeparatesVariants ==
    (/\ call.op = "hash"
     /\ call.x.cls = "Ok"
     /\ call.y.cls = "Fail"
     /\ PyEq(call.x.value, call.y.value)) => call.out[1] # call.out[2]

\* C5: value_or(x, d) raises TypeError for a non-Result x, returns the
\* payload of a success x and returns d for a failure x.
C5_ValueOrIsStrict ==
    call.op = "value_or" =>
        call.out = IF ~IsResult(call.x) THEN Raise("TypeError")
                   ELSE IF call.x.cls = "Ok" THEN Return(call.x.value)
                   ELSE Return(call.y)

\* C5 witness: value_or was called with a non-Result first argument.
C5_Witness == call.op = "value_or" /\ ~IsResult(call.x)

\* C6: unwrap_or(x, d) never raises; it returns the payload of a Result x of
\* either variant and d for a non-Result x.
C6_UnwrapOrIsLenient ==
    call.op = "unwrap_or" =>
        call.out = IF IsResult(call.x) THEN Return(call.x.value) ELSE Return(call.y)

\* C6 witness: unwrap_or was called with a failure and a default that is not
\* the failure's payload.
C6_Witness ==
    call.op = "unwrap_or" /\ call.x.cls = "Fail" /\ call.y # call.x.value

\* C7 as stated: is_result, is_ok and is_fail each return False for a
\* non-Result argument, none of them raises.
C7_GuardsTolerateNonResults ==
    (call.op \in {"is_result", "is_ok", "is_fail"} /\ ~IsResult(call.x)) =>
        call.out = False

\* C7 as amended: for a non-Result argument is_result returns False, while
\* is_ok and is_fail raise AttributeError (the argument has no isOk or
\* isFail method).
C7_OnlyIsResultToleratesNonResults ==
    /\ (call.op = "is_result" /\ ~IsResult(call.x)) => call.out = False
    /\ (call.op \in {"is_ok", "is_fail"} /\ ~IsResult(call.x)) =>
            call.out = Raise("AttributeError")

\* C7 witness: is_ok was called with None.
C7_Witness == call.op = "is_ok" /\ call.x = PyNone

C9_VariantQueriesTotalAndExclusive ==
    call.op \in {"result_ok", "result_fail"} =>
        /\ call.out[1] \in {True, False}
        /\ call.out[2] \in {True, False}
        /\ call.out[1] # call.out[2]
        /\ call.out[1] = call.out[3]
        /\ call.out[2] = call.out[4]
        /\ call.out[1] = IF call.op = "result_ok" THEN True ELSE False
        /\ call.y.value = call.x

\* C9 witness: the four queries were asked of result_fail(None).
C9_Witness == call.op = "result_fail" /\ call.x = PyNone

\* C10 as stated: for a success r, the method r.value_or(d) and the free
\* function value_or(r, d) both return r's payload when it is not None and
\* d when it is None.
C10_ValueOrMethodAndFunctionAgree ==
    (call.op \in {"Ok.value_or", "value_or"} /\ call.x.cls = "Ok") =>
        call.out = IF call.x.value # PyNone THEN Return(call.x.value) ELSE Return(call.y)

\* C10 as amended: for a success r whose payload is not None both return
\* the payload; when the payload is None the method returns d, while the
\* free function returns the payload, None.
C10_ValueOrMethodCoalescesFunctionDoesNot ==
    /\ (call.op = "Ok.value_or" /\ call.x.cls = "Ok") =>
            call.out = IF call.x.value # PyNone THEN Return(call.x.value) ELSE Return(call.y)
    /\ (call.op = "value_or" /\ call.x.cls = "Ok") => call.out = Return(call.x.value)

\* C10 witness: the method was called on a success holding None with a
\* fallback that is not None.
C10_Witness == call.op = "Ok.value_or" /\ call.x = Ok(PyNone) /\ call.y # PyNone

====
